---- MODULE Spec2Model ----
(***************************************************************************)
(* Model of scripts/genpasw.py: the passphrase generator that downloads    *)
(* two word list files, merges and deduplicates them and prints a          *)
(* hyphen-joined passphrase of NUM_WORDS_IN_PASSPHRASE random words.       *)
(*                                                                         *)
(* A character is a one-character string; a text (a file's content, a      *)
(* line, a word, the passphrase) is a sequence of characters.              *)
(***************************************************************************)
EXTENDS Integers, Sequences, FiniteSets, TLC

\* ------------------------------------------------------------ configuration

\* genpasw.py:22
NUM_WORDS_IN_PASSPHRASE == 5

\* genpasw.py:23
MAX_RETRIES == 3

\* The keys of WORDLISTS in the dict's iteration (insertion) order. Each key
\* stands for its filename in the resolved directory and for its url.
Sources == <<"english", "italian">>

SourceSet == {Sources[k] : k \in 1..Len(Sources)}

\* ------------------------------------------------------------------ bounds

\* Number of invocations of the script sharing one wordlist directory.
MaxRuns == 2

\* Longest file content (in characters) enumerated for the Merger.
MaxLen == 3

\* Largest num_words (besides NUM_WORDS_IN_PASSPHRASE) handed to the Sampler.
MaxCount == 3

\* ------------------------------------------------------------------- texts

NL == "\n"

\* A byte sequence that is not valid UTF-8: decoding it raises.
BAD == "?"

Hyphen == "-"

\* str.strip() removes leading and trailing whitespace, line ends included.
IsSpace(c) == c \in {" ", NL}

\* str.lower() on one character of the model's alphabet.
LowerChar(c) ==
  CASE c = "A" -> "a"
    [] c = "B" -> "b"
    [] OTHER -> c

UpperChars == {"A", "B"}

Lower(s) == [k \in 1..Len(s) |-> LowerChar(s[k])]

RECURSIVE LStrip(_)
LStrip(s) ==
  IF s = <<>> THEN <<>>
  ELSE IF IsSpace(Head(s)) THEN LStrip(Tail(s))
  ELSE s

RECURSIVE RStrip(_)
RStrip(s) ==
  IF s = <<>> THEN <<>>
  ELSE IF IsSpace(s[Len(s)]) THEN RStrip(SubSeq(s, 1, Len(s) - 1))
  ELSE s

Strip(s) == RStrip(LStrip(s))

\* Iterating a text file yields its lines, each with its line end; a last
\* line without a line end is yielded too.
RECURSIVE SplitLines(_, _)
SplitLines(content, cur) ==
  IF content = <<>> THEN (IF cur = <<>> THEN <<>> ELSE <<cur>>)
  ELSE IF Head(content) = NL
       THEN <<Append(cur, NL)>> \o SplitLines(Tail(content), <<>>)
       ELSE SplitLines(Tail(content), Append(cur, Head(content)))

FileLines(content) == SplitLines(content, <<>>)

\* the comprehension without its `if line.strip()`
NoKeepBlankLines(line) == TRUE

\* `if line.strip()`: a line is kept when it is not blank.
KeepLine(line) == Strip(line) # <<>>

\* `line.strip().lower()`
Normalize(line) == Lower(Strip(line))

RECURSIVE WordsOfLines(_)
WordsOfLines(lines) ==
  IF lines = <<>> THEN <<>>
  ELSE (IF KeepLine(Head(lines)) THEN <<Normalize(Head(lines))>> ELSE <<>>)
       \o WordsOfLines(Tail(lines))

\* words = [line.strip().lower() for line in f if line.strip()]
WordsOfFile(content) == WordsOfLines(FileLines(content))

Decodable(content) == \A k \in 1..Len(content) : content[k] # BAD

ToSet(s) == {s[k] : k \in 1..Len(s)}

\* ------------------------------------------------------------------- files

NoFile == [exists |-> FALSE, data |-> <<>>]

File(content) == [exists |-> TRUE, data |-> content]

\* merged_wordlist after the loop over WORDLISTS: extend() per source.
RECURSIVE MergedFrom(_, _)
MergedFrom(dir, k) ==
  IF k > Len(Sources) THEN <<>>
  ELSE WordsOfFile(dir[Sources[k]].data) \o MergedFrom(dir, k + 1)

MergedWordlist(dir) == MergedFrom(dir, 1)

\* list(merged_wordlist) instead of list(set(merged_wordlist))
NoDedupOrders(merged) == {merged}

\* All orders of a finite set.
Perms(S) ==
  {p \in [1..Cardinality(S) -> S] : \A a, b \in 1..Cardinality(S) : a # b => p[a] # p[b]}

\* unique_words = list(set(merged_wordlist)); random.shuffle(unique_words):
\* the set's elements in any order.
UniqueShuffled(merged) == Perms(ToSet(merged))

\* ----------------------------------------------------------------- sampler

\* `if len(wordlist) <= num_words`
InsufficientWordsOffByOne(wordlist, n) == Len(wordlist) <= n

\* `if len(wordlist) < num_words:`
InsufficientWords(wordlist, n) == Len(wordlist) < n

\* random.sample(wordlist, k): k distinct positions
ChoicesWithoutReplacement(wordlist, k) ==
  {[j \in 1..k |-> wordlist[ix[j]]] :
     ix \in {f \in [1..k -> 1..Len(wordlist)] : \A a, b \in 1..k : a # b => f[a] # f[b]}}

\* random.choices(wordlist, k=num_words): k independent draws of a position.
Choices(wordlist, k) ==
  {[j \in 1..k |-> wordlist[ix[j]]] : ix \in [1..k -> 1..Len(wordlist)]}

\* "".join(chosen_words)
RECURSIVE JoinNoSeparator(_)
JoinNoSeparator(words) ==
  IF words = <<>> THEN <<>> ELSE Head(words) \o JoinNoSeparator(Tail(words))

\* "-".join(chosen_words)
RECURSIVE Join(_)
Join(words) ==
  IF words = <<>> THEN <<>>
  ELSE IF Len(words) = 1 THEN Head(words)
  ELSE Head(words) \o <<Hyphen>> \o Join(Tail(words))

\* ------------------------------------------------------------------- state

VARIABLES
  disk,               \* source -> its file in the resolved directory
  remote,             \* source -> the complete body a 2xx response delivers
  preexisting,        \* the sources whose file was there before the first run
  run,                \* the number of the current invocation
  pc,                 \* where main is: "check", "download", "merge", "sample", "exited"
  i,                  \* position of main's loop over WORDLISTS (1-based)
  attempt,            \* download_file's loop variable
  all_files_present,  \* main's flag
  log,                \* download_file's messages of the current call, one per attempt
  waits,              \* the time.sleep() durations of the current call
  requested,          \* the sources a GET was issued for in this invocation
  examined,           \* source -> what main's exists() test found in this invocation
  wordlist,           \* the list load_and_merge_words returned
  reported,           \* the printed "Total unique words" count, -1 before
  num_words,          \* generate_passphrase's num_words argument
  chosen,             \* chosen_words
  output,             \* the printed passphrase, <<>> when none
  exit                \* "running", "ok" or the fatal error the process ended with

vars ==
  <<disk, remote, preexisting, run, pc, i, attempt, all_files_present, log, waits,
    requested, examined, wordlist, reported, num_words, chosen, output, exit>>

\* sys.exit(<message>) ends the process with status 1; falling off main with 0.
ExitCode(e) == IF e = "ok" THEN 0 ELSE 1

NotExamined == [seen |-> FALSE, file |-> NoFile]

Examined(f) == [seen |-> TRUE, file |-> f]

\* ------------------------------------------------------- the word list files

EnglishBody == <<"a", NL, "B", NL, "a", NL, " ", NL, "c">>

ItalianBody == <<"A", NL, "d", NL, "e">>

\* What the two urls may serve (the second may serve an empty list).
RemoteBodies ==
  {[english |-> EnglishBody, italian |-> b] : b \in {ItalianBody, <<>>}}

\* What the resolved directory may hold before the first run.
InitialDisks ==
  {[english |-> e, italian |-> t] :
     e \in {NoFile, File(<<"A", NL>>), File(<<BAD>>)},
     t \in {NoFile, File(<<"E", NL>>)}}

ProcessStart ==
  /\ pc = "check"
  /\ i = 1
  /\ attempt = 0
  /\ all_files_present = TRUE
  /\ log = <<>>
  /\ waits = <<>>
  /\ requested = {}
  /\ examined = [s \in SourceSet |-> NotExamined]
  /\ wordlist = <<>>
  /\ reported = -1
  /\ chosen = <<>>
  /\ output = <<>>
  /\ exit = "running"

Init ==
  /\ disk \in InitialDisks
  /\ remote \in RemoteBodies
  /\ preexisting = {s \in SourceSet : disk[s].exists}
  /\ run = 1
  /\ num_words = NUM_WORDS_IN_PASSPHRASE
  /\ ProcessStart

\* ----------------------------------------------------------------- fetcher

\* `if not filepath.exists()` dropped: every file is downloaded
NeedsDownloadAlways(dir, s) == TRUE

\* `if not filepath.exists():`
NeedsDownload(dir, s) == ~dir[s].exists

\* main's loop goes on to the next source, or main goes on to step 3.
NextSource ==
  /\ i' = i + 1
  /\ pc' = IF i + 1 > Len(Sources) THEN "merge" ELSE "check"

\* The file is there: nothing is done for this source.
SkipPresent ==
  /\ pc = "check"
  /\ ~NeedsDownload(disk, Sources[i])
  /\ examined' = [examined EXCEPT ![Sources[i]] = Examined(disk[Sources[i]])]
  /\ NextSource
  /\ UNCHANGED <<disk, remote, preexisting, run, attempt, all_files_present, log,
                 waits, requested, wordlist, reported, num_words, chosen, output, exit>>

\* The file is missing: main calls download_file, which starts its loop.
StartDownload ==
  /\ pc = "check"
  /\ NeedsDownload(disk, Sources[i])
  /\ examined' = [examined EXCEPT ![Sources[i]] = Examined(disk[Sources[i]])]
  /\ all_files_present' = FALSE
  /\ pc' = "download"
  /\ attempt' = 0
  /\ log' = <<>>
  /\ waits' = <<>>
  /\ UNCHANGED <<disk, remote, preexisting, run, i, requested, wordlist, reported,
                 num_words, chosen, output, exit>>

\* `if attempt <= MAX_RETRIES - 1`
CanRetryOffByOne(a) == a <= MAX_RETRIES - 1

\* `if attempt < MAX_RETRIES - 2`
CanRetryTooFew(a) == a < MAX_RETRIES - 2

\* `if attempt < MAX_RETRIES - 1:`
CanRetry(a) == a < MAX_RETRIES - 1

\* `wait_time = 2 ** attempt`
Backoff(a) == 2 ^ a

\* a message printed in place of sys.exit(): main goes on
AfterExhaustionContinue == "check"

\* sys.exit(...) in download_file: the process ends.
AfterExhaustion == "exited"

\* One attempt that ends in requests.exceptions.RequestException, leaving the
\* directory as `newdisk`: the except clause.
AttemptFailed(newdisk) ==
  /\ disk' = newdisk
  /\ requested' = requested \cup {Sources[i]}
  /\ log' = Append(log, "error")
  /\ IF CanRetry(attempt)
     THEN /\ waits' = Append(waits, Backoff(attempt))
          /\ exit' = exit
          /\ IF attempt + 1 < MAX_RETRIES
             THEN attempt' = attempt + 1 /\ pc' = "download" /\ i' = i
             ELSE \* range(MAX_RETRIES) is used up: download_file returns
                  attempt' = attempt /\ NextSource
     ELSE /\ waits' = waits
          /\ attempt' = attempt
          /\ i' = i
          /\ exit' = "download_failed"
          /\ pc' = AfterExhaustion
  /\ UNCHANGED <<remote, preexisting, run, all_files_present, examined, wordlist,
                 reported, num_words, chosen, output>>

\* The GET succeeds and the whole body is written: download_file returns.
AttemptSucceeds ==
  /\ pc = "download"
  /\ disk' = [disk EXCEPT ![Sources[i]] = File(remote[Sources[i]])]
  /\ requested' = requested \cup {Sources[i]}
  /\ log' = Append(log, "success")
  /\ NextSource
  /\ UNCHANGED <<remote, preexisting, run, attempt, all_files_present, waits, examined,
                 wordlist, reported, num_words, chosen, output, exit>>

\* requests.get or raise_for_status raises (connection error, timeout, bad
\* status): the target file is not opened.
AttemptFailsRequest ==
  /\ pc = "download"
  /\ AttemptFailed(disk)

\* iter_content raises after open(target_path, 'wb'): the file holds the
\* chunks written so far, a proper prefix of the body (possibly nothing).
AttemptFailsMidBody ==
  /\ pc = "download"
  /\ \E n \in 0..(Len(remote[Sources[i]]) - 1) :
       AttemptFailed([disk EXCEPT ![Sources[i]] = File(SubSeq(remote[Sources[i]], 1, n))])

\* ------------------------------------------------------------------ merger

\* The first source (in WORDLISTS order) from position k on whose file cannot
\* be opened or decoded; 0 when every file loads.
RECURSIVE FirstUnreadable(_, _)
FirstUnreadable(dir, k) ==
  IF k > Len(Sources) THEN 0
  ELSE IF ~dir[Sources[k]].exists \/ ~Decodable(dir[Sources[k]].data) THEN k
  ELSE FirstUnreadable(dir, k + 1)

\* load_and_merge_words as main calls it. A file that cannot be opened ends
\* the process (`except FileNotFoundError: sys.exit(...)`), one that cannot
\* be decoded too (`except Exception as e: sys.exit(...)`); otherwise the
\* shuffled unique words are returned.
LoadAndMerge ==
  /\ pc = "merge"
  /\ IF FirstUnreadable(disk, 1) # 0
     THEN /\ exit' = IF disk[Sources[FirstUnreadable(disk, 1)]].exists
                     THEN "read_error"
                     ELSE "missing_file"
          /\ pc' = "exited"
          /\ UNCHANGED <<wordlist, reported>>
     ELSE /\ \E w \in UniqueShuffled(MergedWordlist(disk)) :
               /\ wordlist' = w
               /\ reported' = Len(w)
          /\ pc' = "sample"
          /\ exit' = exit
  \* The record of the fetch step's last download_file call ends here.
  /\ log' = <<>>
  /\ waits' = <<>>
  /\ attempt' = 0
  /\ UNCHANGED <<disk, remote, preexisting, run, i, all_files_present, requested,
                 examined, num_words, chosen, output>>

\* ----------------------------------------------------------------- sampler

\* `if len(wordlist) < num_words: sys.exit(...)`
SampleInsufficient ==
  /\ pc = "sample"
  /\ InsufficientWords(wordlist, num_words)
  /\ exit' = "insufficient_words"
  /\ pc' = "exited"
  /\ wordlist' = <<>>
  /\ UNCHANGED <<disk, remote, preexisting, run, i, attempt, all_files_present, log,
                 waits, requested, examined, reported, num_words, chosen, output>>

\* generate_passphrase returns; main prints the passphrase and ends. The
\* merged list goes with the process.
SampleReturns ==
  /\ pc = "sample"
  /\ ~InsufficientWords(wordlist, num_words)
  /\ \E c \in Choices(wordlist, num_words) :
       /\ chosen' = c
       /\ output' = Join(c)
  /\ exit' = "ok"
  /\ pc' = "exited"
  /\ wordlist' = <<>>
  /\ UNCHANGED <<disk, remote, preexisting, run, i, attempt, all_files_present, log,
                 waits, requested, examined, reported, num_words>>

GeneratePassphrase == SampleInsufficient \/ SampleReturns

\* ------------------------------------------------------------- invocations

\* The script is started again on the same directory: only the files remain.
NewInvocation ==
  /\ pc = "exited"
  /\ run < MaxRuns
  /\ run' = run + 1
  /\ pc' = "check"
  /\ i' = 1
  /\ attempt' = 0
  /\ all_files_present' = TRUE
  /\ log' = <<>>
  /\ waits' = <<>>
  /\ requested' = {}
  /\ examined' = [s \in SourceSet |-> NotExamined]
  /\ wordlist' = <<>>
  /\ reported' = -1
  /\ chosen' = <<>>
  /\ output' = <<>>
  /\ exit' = "running"
  /\ UNCHANGED <<disk, remote, preexisting, num_words>>

Next ==
  \/ SkipPresent
  \/ StartDownload
  \/ AttemptSucceeds
  \/ AttemptFailsRequest
  \/ AttemptFailsMidBody
  \/ LoadAndMerge
  \/ GeneratePassphrase
  \/ NewInvocation

Spec == Init /\ [][Next]_vars

\* ------------------------------------------- the Merger on its own inputs

Alphabet == {"a", "A", " ", NL}

\* Every text of at most n characters.
Texts(n) == UNION {[1..k -> Alphabet] : k \in 0..n}

ExampleEnglish ==
  <<"a", "p", "p", "l", "e", NL, "B", "a", "n", "a", "n", "a", NL, "a", "p", "p", "l", "e", NL>>

ExampleItalian == <<"c", "h", "e", "r", "r", "y", NL>>

\* What a source's path may hold when load_and_merge_words is called on a
\* directory: nothing, any short text, an undecodable file, the examples.
MergeFiles ==
  {File(t) : t \in Texts(MaxLen)}
    \cup {NoFile, File(<<"a", BAD>>), File(ExampleEnglish), File(ExampleItalian)}

InitMerge ==
  /\ disk \in [SourceSet -> MergeFiles]
  /\ remote = [s \in SourceSet |-> <<>>]
  /\ preexisting = {s \in SourceSet : disk[s].exists}
  /\ run = 1
  /\ num_words = NUM_WORDS_IN_PASSPHRASE
  /\ pc = "merge"
  /\ i = Len(Sources) + 1
  /\ attempt = 0
  /\ all_files_present = TRUE
  /\ log = <<>>
  /\ waits = <<>>
  /\ requested = {}
  /\ examined = [s \in SourceSet |-> Examined(disk[s])]
  /\ wordlist = <<>>
  /\ reported = -1
  /\ chosen = <<>>
  /\ output = <<>>
  /\ exit = "running"

NextMerge == LoadAndMerge

SpecMerge == InitMerge /\ [][NextMerge]_vars

\* ------------------------------------------ the Sampler on its own inputs

WordUniverse == {<<"a">>, <<"b">>, <<"c">>, <<"d">>, <<"a", Hyphen, "b">>}

\* The lists load_and_merge_words can return over WordUniverse: unique
\* stripped lowercase words in any order.
SamplerInputs == UNION {Perms(S) : S \in SUBSET WordUniverse}

SampleCounts == (1..MaxCount) \cup {NUM_WORDS_IN_PASSPHRASE}

\* A file holding the given words, one per line.
RECURSIVE LinesText(_)
LinesText(words) ==
  IF words = <<>> THEN <<>> ELSE Head(words) \o <<NL>> \o LinesText(Tail(words))

\* The Sampler is called with a list the Merger returned for the directory:
\* here the first file lists the words and the second is empty.
InitSampler ==
  /\ wordlist \in SamplerInputs
  /\ num_words \in SampleCounts
  /\ reported = Len(wordlist)
  /\ disk = [s \in SourceSet |->
               IF s = Sources[1] THEN File(LinesText(wordlist)) ELSE File(<<>>)]
  /\ wordlist \in UniqueShuffled(MergedWordlist(disk))
  /\ remote = [s \in SourceSet |-> <<>>]
  /\ preexisting = SourceSet
  /\ run = 1
  /\ pc = "sample"
  /\ i = Len(Sources) + 1
  /\ attempt = 0
  /\ all_files_present = TRUE
  /\ log = <<>>
  /\ waits = <<>>
  /\ requested = {}
  /\ examined = [s \in SourceSet |-> Examined(disk[s])]
  /\ chosen = <<>>
  /\ output = <<>>
  /\ exit = "running"

NextSampler == GeneratePassphrase

SpecSampler == InitSampler /\ [][NextSampler]_vars

\* ------------------------------------------------------ helpers of the claims

HyphenCount(t) == Cardinality({k \in 1..Len(t) : t[k] = Hyphen})

\* str.split('-')
RECURSIVE SplitFrom(_, _)
SplitFrom(t, cur) ==
  IF t = <<>> THEN <<cur>>
  ELSE IF Head(t) = Hyphen THEN <<cur>> \o SplitFrom(Tail(t), <<>>)
  ELSE SplitFrom(Tail(t), Append(cur, Head(t)))

SplitOnHyphen(t) == SplitFrom(t, <<>>)

RECURSIVE SumOver(_, _)
SumOver(f, k) == IF k = 0 THEN 0 ELSE f[k] + SumOver(f, k - 1)

HasRepeat(c) == \E a, b \in 1..Len(c) : a # b /\ c[a] = c[b]

NoDuplicates(c) == \A a, b \in 1..Len(c) : a # b => c[a] # c[b]

ErrorCount(l) == Cardinality({k \in 1..Len(l) : l[k] = "error"})

Min(a, b) == IF a <= b THEN a ELSE b

\* The words a text holds, read off the text directly: the stretches p..q
\* inside one line that start and end with a non-blank character and have
\* only blanks between them and the line's two ends, in lower case.
WordsIn(t) ==
  {[k \in 1..(pq[2] - pq[1] + 1) |-> LowerChar(t[pq[1] + k - 1])] :
     pq \in {x \in (1..Len(t)) \X (1..Len(t)) :
               /\ x[1] <= x[2]
               /\ t[x[1]] \notin {" ", NL}
               /\ t[x[2]] \notin {" ", NL}
               /\ \A k \in x[1]..x[2] : t[k] # NL
               /\ \E a \in 1..x[1] :
                    /\ a = 1 \/ t[a - 1] = NL
                    /\ \A k \in a..(x[1] - 1) : t[k] = " "
               /\ \E b \in x[2]..Len(t) :
                    /\ b = Len(t) \/ t[b + 1] = NL
                    /\ \A k \in (x[2] + 1)..b : t[k] = " "}}

ExpectedWords(dir) == UNION {WordsIn(dir[s].data) : s \in SourceSet}

Readable(dir) == \A s \in SourceSet : dir[s].exists /\ Decodable(dir[s].data)

Blank(t) == \A k \in 1..Len(t) : t[k] \in {" ", NL}

\* ------------------------------------------------------------------ claims

\* C1: a download_file call makes at most MAX_RETRIES GET attempts; it ends
\* the process exactly when MAX_RETRIES attempts in a row failed with a request
\* error; the k-th wait is 2^(k-1) seconds, so the waits strictly increase,
\* and there is one wait after each failed attempt but the last; a success is
\* the last attempt of the call.
C1_RetryContract ==
  /\ Len(log) <= MAX_RETRIES
  /\ \A k \in 1..Len(log) : log[k] = "success" => k = Len(log) /\ pc # "download"
  /\ (exit = "download_failed") <=> (ErrorCount(log) = MAX_RETRIES)
  /\ exit = "download_failed" => Len(log) = MAX_RETRIES /\ waits = <<1, 2>>
  /\ Len(waits) = Min(ErrorCount(log), MAX_RETRIES - 1)
  /\ \A k \in 1..Len(waits) : waits[k] = 2 ^ (k - 1)
  /\ \A j, k \in 1..Len(waits) : j < k => waits[j] < waits[k]

C1_Witness ==
  /\ exit = "download_failed"
  /\ log = <<"error", "error", "error">>
  /\ waits = <<1, 2>>

\* C2: a source whose file was there when main examined it gets no GET in
\* this invocation, and its file is what it was; in every invocation.
C2_NoRedownload ==
  \A s \in SourceSet :
    examined[s].seen /\ examined[s].file.exists =>
      /\ s \notin requested
      /\ disk[s] = examined[s].file

C2_Witness ==
  /\ run = 2
  /\ exit = "ok"
  /\ \A s \in SourceSet : examined[s].seen /\ examined[s].file.exists
  /\ requested = {}

C5_MergerEntries ==
  pc = "sample" =>
    /\ NoDuplicates(wordlist)
    /\ \A k \in 1..Len(wordlist) :
         /\ wordlist[k] # <<>>
         /\ wordlist[k][1] \notin {" ", NL}
         /\ wordlist[k][Len(wordlist[k])] \notin {" ", NL}
         /\ \A j \in 1..Len(wordlist[k]) : wordlist[k][j] \notin UpperChars

C5_Witness ==
  /\ pc = "sample"
  /\ disk["english"].data = <<"a", NL, "A">>
  /\ disk["italian"].data = <<" ", "a", " ">>
  /\ wordlist = <<<<"a">>>>

\* C6: once a download has used up its retries the process has ended with a
\* non-zero status: no later source was examined or requested, the Merger
\* and the Sampler did not run and no passphrase was printed.
C6_FatalAbort ==
  exit = "download_failed" =>
    /\ pc = "exited"
    /\ ExitCode(exit) # 0
    /\ \A k \in (i + 1)..Len(Sources) :
         Sources[k] \notin requested /\ ~examined[Sources[k]].seen
    /\ wordlist = <<>>
    /\ reported = -1
    /\ chosen = <<>>
    /\ output = <<>>

C6_Witness ==
  /\ exit = "download_failed"
  /\ i = 1
  /\ ~examined["italian"].seen
  /\ ~disk["italian"].exists

\* C7: a process in which the Merger returned has ended with the
\* insufficient-words error and no passphrase when the collection had fewer
\* than N words, and with a passphrase and status 0 otherwise.
C7_SamplerPrecondition ==
  pc = "exited" /\ reported >= 0 =>
    IF reported < num_words
    THEN exit = "insufficient_words" /\ output = <<>> /\ ExitCode(exit) # 0
    ELSE exit = "ok" /\ output # <<>> /\ ExitCode(exit) = 0

C7_Witness ==
  /\ exit = "insufficient_words"
  /\ reported = 0
  /\ output = <<>>

\* C8: the Merger returns whenever every file is there and decodes, blank or
\* empty files included; what it returns, as a set, is the set of the
\* stripped lower-cased non-blank lines of all files, and the printed count is
\* that set's size; a blank or empty file adds nothing; the example files
\* yield apple, banana, cherry.
C8_MergerExactSet ==
  /\ pc = "exited" => ~Readable(disk)
  /\ pc = "sample" =>
       /\ ToSet(wordlist) = ExpectedWords(disk)
       /\ reported = Cardinality(ExpectedWords(disk))
       /\ \A s \in SourceSet :
            Blank(disk[s].data) =>
              ToSet(wordlist) = UNION {WordsIn(disk[o].data) : o \in SourceSet \ {s}}
  /\ /\ pc = "sample"
     /\ disk["english"].data = ExampleEnglish
     /\ disk["italian"].data = ExampleItalian
     => /\ Len(wordlist) = 3
        /\ ToSet(wordlist) =
             {<<"a", "p", "p", "l", "e">>, <<"b", "a", "n", "a", "n", "a">>,
              <<"c", "h", "e", "r", "r", "y">>}

C8_Witness ==
  /\ pc = "sample"
  /\ disk["english"].data = ExampleEnglish
  /\ disk["italian"].data = ExampleItalian
  /\ Len(wordlist) = 3

\* C9 as claimed: starting from an empty directory, whenever the Merger has
\* read the files, each holds the complete body of its url.
C9_OnlyCompleteFilesLoaded ==
  preexisting = {} /\ reported >= 0 =>
    \A s \in SourceSet : disk[s].data = remote[s]

\* C10: main reaches the Merger only after the loop over all sources, and
\* then every source's file exists: it was found present, or a GET for it
\* succeeded and wrote the whole body; the Sampler runs only after the Merger
\* returned; the missing-file error never ends a process.
C10_FilesPresentAtMerge ==
  /\ exit # "missing_file"
  /\ pc = "merge" =>
       /\ i = Len(Sources) + 1
       /\ \A s \in SourceSet :
            /\ disk[s].exists
            /\ examined[s].seen
            /\ \/ examined[s].file.exists
               \/ s \in requested /\ disk[s] = File(remote[s])
  /\ pc \in {"check", "download"} => reported = -1 /\ output = <<>>
  /\ pc = "sample" => reported >= 0 /\ output = <<>>
  /\ output # <<>> => reported >= 0

C10_Witness ==
  /\ pc = "merge"
  /\ requested = SourceSet
  /\ \A s \in SourceSet : ~examined[s].file.exists /\ disk[s] = File(remote[s])

====
